---- MODULE Spec2Model ----
(***************************************************************************)
(* Model of the download orchestration of yt-dlp-x (src-tauri/src/lib.rs   *)
(* and src-tauri/src/utils): the download_media and fetch_media_preview    *)
(* commands, the two forward_stream reader tasks, the child process they   *)
(* supervise, the shared event sink and the binary resolution they use.    *)
(*                                                                         *)
(* Text is modelled as a sequence of one-character strings, so that trim,  *)
(* join, starts_with, find and split are computed as the code does.        *)
(***************************************************************************)
EXTENDS Integers, Sequences, FiniteSets, TLC

\* ------------------------------------------------------------------ text

\* Option<T>: None is the empty sequence, Some(x) the sequence holding x
None == <<>>
Some(x) == <<x>>
IsSome(o) == Len(o) = 1
Unwrap(o) == o[1]

\* char::is_whitespace, on the characters of the model's alphabet
IsWhitespace(c) == c \in {" ", "\t", "\n"}

IsPrefixOf(p, s) ==
    /\ Len(p) <= Len(s)
    /\ \A k \in 1..Len(p) : s[k] = p[k]

DropFirst(s, n) == SubSeq(s, n + 1, Len(s))

\* str::trim_start
RECURSIVE TrimStart(_)
TrimStart(s) ==
    IF s # <<>> /\ IsWhitespace(s[1]) THEN TrimStart(Tail(s)) ELSE s

\* str::trim_end
RECURSIVE TrimEnd(_)
TrimEnd(s) ==
    IF s # <<>> /\ IsWhitespace(s[Len(s)])
    THEN TrimEnd(SubSeq(s, 1, Len(s) - 1))
    ELSE s

\* A trim that does nothing.
TrimNothing(s) == s

\* str::trim
Trim(s) == TrimEnd(TrimStart(s))

\* str::trim_start_matches(pat): removes every repetition of the prefix
RECURSIVE TrimStartMatches(_, _)
TrimStartMatches(s, pat) ==
    IF pat # <<>> /\ IsPrefixOf(pat, s)
    THEN TrimStartMatches(DropFirst(s, Len(pat)), pat)
    ELSE s

\* str::trim_end_matches(ch)
RECURSIVE TrimEndMatches(_, _)
TrimEndMatches(s, ch) ==
    IF s # <<>> /\ s[Len(s)] = ch
    THEN TrimEndMatches(SubSeq(s, 1, Len(s) - 1), ch)
    ELSE s

\* The positions (1-based) at which pat occurs in s.
Occurrences(s, pat) ==
    {k \in 1..(Len(s) - Len(pat) + 1) : SubSeq(s, k, k + Len(pat) - 1) = pat}

SetMin(S) == CHOOSE x \in S : \A y \in S : x <= y
SetMax(S) == CHOOSE x \in S : \A y \in S : x >= y

\* str::find: the first position of pat in s, 0 for Option::None
Find(s, pat) == IF Occurrences(s, pat) = {} THEN 0 ELSE SetMin(Occurrences(s, pat))

\* str::rfind: the last position of pat in s, 0 for Option::None
RFind(s, pat) == IF Occurrences(s, pat) = {} THEN 0 ELSE SetMax(Occurrences(s, pat))

\* str::contains
Contains(s, pat) == Occurrences(s, pat) # {}

\* str::split_whitespace().next(): the first whitespace-delimited token,
\* <<>> for Option::None
FirstToken(s) ==
    LET t == TrimStart(s)
        ws == {k \in 1..Len(t) : IsWhitespace(t[k])}
    IN IF ws = {} THEN t ELSE SubSeq(t, 1, SetMin(ws) - 1)

\* [String]::join("\n")
RECURSIVE JoinLines(_)
JoinLines(lines) ==
    IF lines = <<>> THEN <<>>
    ELSE IF Len(lines) = 1 THEN lines[1]
    ELSE lines[1] \o <<"\n">> \o JoinLines(Tail(lines))

\* ------------------------------------------------------------ f64 parsing

Digits == <<"0", "1", "2", "3", "4", "5", "6", "7", "8", "9">>

IsDigit(c) == \E k \in 1..10 : Digits[k] = c

DigitValue(c) == (CHOOSE k \in 1..10 : Digits[k] = c) - 1

AllDigits(s) == \A k \in 1..Len(s) : IsDigit(s[k])

RECURSIVE DigitsValue(_)
DigitsValue(s) ==
    IF s = <<>> THEN 0
    ELSE 10 * DigitsValue(SubSeq(s, 1, Len(s) - 1)) + DigitValue(s[Len(s)])

RECURSIVE Pow10(_)
Pow10(n) == IF n <= 0 THEN 1 ELSE 10 * Pow10(n - 1)

Upper == <<"A", "B", "C", "D", "E", "F", "G", "H", "I", "J", "K", "L", "M",
           "N", "O", "P", "Q", "R", "S", "T", "U", "V", "W", "X", "Y", "Z">>
Lower == <<"a", "b", "c", "d", "e", "f", "g", "h", "i", "j", "k", "l", "m",
           "n", "o", "p", "q", "r", "s", "t", "u", "v", "w", "x", "y", "z">>

\* char::to_ascii_lowercase
ToAsciiLowerChar(c) ==
    IF \E k \in 1..26 : Upper[k] = c
    THEN Lower[CHOOSE k \in 1..26 : Upper[k] = c]
    ELSE c

\* str::to_ascii_lowercase
ToAsciiLowercase(s) == [k \in 1..Len(s) |-> ToAsciiLowerChar(s[k])]

\* The optional sign of a number: <<negative, rest>>
SplitSign(s) ==
    IF s # <<>> /\ s[1] \in {"+", "-"} THEN <<s[1] = "-", Tail(s)>> ELSE <<FALSE, s>>

\* The decimal part of a float literal, digits [ "." digits ] with a digit on
\* at least one side: Some(<<mantissa, exponent of ten>>), None when malformed.
ParseDecimal(s) ==
    LET dot == Find(s, <<".">>)
        ip  == IF dot = 0 THEN s ELSE SubSeq(s, 1, dot - 1)
        fp  == IF dot = 0 THEN <<>> ELSE DropFirst(s, dot)
    IN IF AllDigits(ip) /\ AllDigits(fp) /\ Len(ip) + Len(fp) > 0
       THEN Some(<<DigitsValue(ip \o fp), 0 - Len(fp)>>)
       ELSE None

\* The exponent of a float literal, [sign] digits: Some(value), None when malformed.
ParseExponent(s) ==
    LET sg == SplitSign(s)
    IN IF sg[2] # <<>> /\ AllDigits(sg[2])
       THEN Some(IF sg[1] THEN 0 - DigitsValue(sg[2]) ELSE DigitsValue(sg[2]))
       ELSE None

\* A number parser that takes any text for zero.
ParseF64AcceptsAnything(s) == Some([kind |-> "finite", neg |-> FALSE, mant |-> 0, exp10 |-> 0])

\* <f64 as FromStr>::from_str: Some(value), the value as sign, mantissa and
\* exponent of ten (mant * 10^exp10), or an infinity or a NaN; None for Err.
ParseF64(s) ==
    LET sg    == SplitSign(s)
        body  == sg[2]
        low   == ToAsciiLowercase(body)
        epos  == Find(low, <<"e">>)
        dpart == IF epos = 0 THEN body ELSE SubSeq(body, 1, epos - 1)
        dec   == ParseDecimal(dpart)
        ex    == IF epos = 0 THEN Some(0) ELSE ParseExponent(DropFirst(body, epos))
    IN IF low \in {<<"i", "n", "f">>, <<"i", "n", "f", "i", "n", "i", "t", "y">>}
       THEN Some([kind |-> "inf", neg |-> sg[1], mant |-> 0, exp10 |-> 0])
       ELSE IF low = <<"n", "a", "n">>
       THEN Some([kind |-> "nan", neg |-> sg[1], mant |-> 0, exp10 |-> 0])
       ELSE IF ~IsSome(dec) \/ ~IsSome(ex) THEN None
       ELSE Some([kind |-> "finite", neg |-> sg[1], mant |-> Unwrap(dec)[1],
                  exp10 |-> Unwrap(dec)[2] + Unwrap(ex)])

\* percent_value >= 100.0
AtLeast100(v) ==
    CASE v.kind = "nan" -> FALSE
      [] v.kind = "inf" -> ~v.neg
      [] OTHER ->
            /\ ~v.neg
            /\ IF v.exp10 >= 0
               THEN v.mant * Pow10(v.exp10) >= 100
               ELSE v.mant >= 100 * Pow10(0 - v.exp10)

\* ------------------------------------------------------- progress parser

Marker == <<"[", "d", "o", "w", "n", "l", "o", "a", "d", "]">>
EtaToken == <<"E", "T", "A", " ">>
EtaWord == <<"E", "T", "A">>
InToken == <<" ", "i", "n", " ">>
AtToken == <<" ", "a", "t", " ">>
EtaMarker == <<" ", "E", "T", "A", " ">>
OfPrefix == <<"o", "f", " ">>
Percent == <<"%">>

\* Option of a text: None when it is empty
NonEmpty(s) == IF s = <<>> THEN None ELSE Some(s)

\* An ETA taken from "ETA " alone, without " in " as the second choice.
ParseEtaWithoutIn(rest) ==
    IF RFind(rest, EtaToken) # 0
    THEN NonEmpty(Trim(DropFirst(rest, RFind(rest, EtaToken) + 3)))
    ELSE None

\* lib.rs 462-474: the text after the last "ETA ", else after the last " in "
ParseEta(rest) ==
    IF RFind(rest, EtaToken) # 0
    THEN NonEmpty(Trim(DropFirst(rest, RFind(rest, EtaToken) + 3)))
    ELSE IF RFind(rest, InToken) # 0
    THEN NonEmpty(Trim(DropFirst(rest, RFind(rest, InToken) + 3)))
    ELSE None

\* lib.rs 476-485: the first token after the first " at ", without trailing commas
ParseSpeed(rest) ==
    IF Find(rest, AtToken) = 0 THEN None
    ELSE NonEmpty(TrimEndMatches(
             Trim(FirstToken(DropFirst(rest, Find(rest, AtToken) + 3))), ","))

\* lib.rs 487-499: after a leading "of ", up to the earliest of " at ", " ETA ", " in "
ParseTotal(rest) ==
    LET r == TrimStart(rest)
    IN IF ~IsPrefixOf(OfPrefix, r) THEN None
       ELSE LET afterOf == DropFirst(r, Len(OfPrefix))
                cuts == {Find(afterOf, m) - 1 :
                           m \in {mk \in {AtToken, EtaMarker, InToken} :
                                    Find(afterOf, mk) # 0}}
                endIndex == SetMin(cuts \cup {Len(afterOf)})
            IN NonEmpty(TrimEndMatches(Trim(SubSeq(afterOf, 1, endIndex)), ","))

\* A status that looks at the remainder alone, not at the percent.
ParseStatusByRemainder(rest, value) ==
    IF Contains(rest, InToken) THEN Some("finished")
    ELSE IF rest # <<>> THEN Some("downloading")
    ELSE None

\* lib.rs 501-506
ParseStatus(rest, value) ==
    IF Contains(rest, InToken) \/ AtLeast100(value) THEN Some("finished")
    ELSE IF Contains(rest, EtaWord) \/ rest # <<>> THEN Some("downloading")
    ELSE None

\* parse_progress_line: Some(ProgressInfo), None for a line that is no progress line
ParseProgressLine(line) ==
    IF ~IsPrefixOf(Marker, line) THEN None
    ELSE LET trimmed == Trim(TrimStartMatches(line, Marker))
             at == Find(trimmed, Percent)
         IN IF at = 0 THEN None
            ELSE LET percentStr == Trim(SubSeq(trimmed, 1, at - 1))
                     rest == Trim(DropFirst(trimmed, at))
                     value == ParseF64(percentStr)
                 IN IF percentStr = <<>> \/ ~IsSome(value) THEN None
                    ELSE Some([percent |-> Unwrap(value),
                               percent_str |-> percentStr \o Percent,
                               eta |-> ParseEta(rest),
                               speed |-> ParseSpeed(rest),
                               total |-> ParseTotal(rest),
                               status |-> ParseStatus(rest, Unwrap(value)),
                               raw |-> trimmed])

\* ------------------------------------------------------------------ state

\* The download and preview invocations the model runs side by side.
Invocations == {1, 2}

Streams == {"stdout", "stderr"}

\* The two binaries: the downloader and the transcoder.
Binaries == {"yt-dlp", "ffmpeg"}

VARIABLES
    pc,        \* pc[i]: where invocation i of a command is suspended
    req,       \* req[i]: the request invocation i was called with
    sid,       \* sid[i]: the session id of invocation i (lib.rs 252-258)
    result,    \* result[i]: None, or Some(what the command returned)
    effects,   \* effects[i]: the outside effects invocation i has had so far
    args,      \* args[i]: the argument list the downloader was spawned with
    child,     \* child[i]: the state of the process invocation i spawned
    pipe,      \* pipe[i][s]: the lines the process has written to pipe s
    buf,       \* buf[i][s]: the buffer of the reader task of pipe s
    rpc,       \* rpc[i][s]: where the reader task of pipe s is
    emitted,   \* every window.emit call so far, in order, with its outcome
    onPath,    \* onPath[b]: binary b is found on the system search path
    bundled,   \* bundled[b]: the file at the bundled path of binary b
    now,       \* the last reading of the system clock, in milliseconds
    dataDir,   \* ProjectDirs::from finds the application data directory
    call,      \* call[c]: the resolver call caller c is in (check, ensure, install)
    trace      \* the resolver calls that have returned, in the order of their return

mainVars == <<pc, req, sid, result, effects, args>>
procVars == <<child, pipe>>
readVars == <<buf, rpc, emitted>>
envVars == <<onPath, bundled, dataDir>>
resVars == <<call, trace>>
vars == <<pc, req, sid, result, effects, args, child, pipe, buf, rpc, emitted,
          onPath, bundled, now, dataDir, call, trace>>

\* ------------------------------------------------------- binary resolution

\* detect_system_binary (which, then the macOS directories)
DetectSystemBinary(b) == onPath[b]

\* A check of the bundled path that never finds the file.
DetectBundledNever(b) == FALSE

\* detect_bundled_binary: path.exists()
DetectBundledBinary(b) == bundled[b].exists

\* A detection that looks at the bundled path before the system search path.
DetectExistingBundledFirst(b) ==
    IF DetectBundledBinary(b) THEN Some("bundled")
    ELSE IF DetectSystemBinary(b) THEN Some("system")
    ELSE None

\* detect_existing: Some(source) or None
DetectExisting(b) ==
    IF DetectSystemBinary(b) THEN Some("system")
    ELSE IF DetectBundledBinary(b) THEN Some("bundled")
    ELSE None

\* A transcoder check that never fails.
FfmpegAssumedAvailable == Some("system")

\* ffmpeg::ensure_available: detect_existing()?.ok_or_else(..), Some(source) or
\* None for the "ffmpeg not detected" error
FfmpegEnsureAvailable == DetectExisting("ffmpeg")

\* ------------------------------------------------------------- session id

SessionPrefix == <<"s", "e", "s", "s", "i", "o", "n", "-">>

\* The decimal text of a natural number, as format!("{}") writes it
RECURSIVE ToDecimal(_)
ToDecimal(n) ==
    IF n < 10 THEN <<Digits[n + 1]>>
    ELSE ToDecimal(n \div 10) \o <<Digits[(n % 10) + 1]>>

\* A session id that ignores what the caller supplied.
SessionIdIgnoringCaller(supplied, millis) == SessionPrefix \o ToDecimal(millis)

\* lib.rs 252-257: session_id.unwrap_or_else(|| format!("session-{millis}"))
SessionIdFor(supplied, millis) ==
    IF IsSome(supplied) THEN Unwrap(supplied) ELSE SessionPrefix \o ToDecimal(millis)

\* --------------------------------------------------------------- arguments

\* One element of the argument list: a fixed flag or a text taken from the request
Flag(name) == [lit |-> name, text |-> <<>>]
Text(t) == [lit |-> "", text |-> t]

BilibiliCom == <<"b", "i", "l", "i", "b", "i", "l", "i", ".", "c", "o", "m">>
B23Tv == <<"b", "2", "3", ".", "t", "v">>
BilivideoCom == <<"b", "i", "l", "i", "v", "i", "d", "e", "o", ".", "c", "o", "m">>
AcgTv == <<"a", "c", "g", ".", "t", "v">>
DouyinCom == <<"d", "o", "u", "y", "i", "n", ".", "c", "o", "m">>
IesdouyinCom == <<"i", "e", "s">> \o DouyinCom

IsBilibiliUrl(url) ==
    LET lower == ToAsciiLowercase(url)
    IN \/ Contains(lower, BilibiliCom)
       \/ Contains(lower, B23Tv)
       \/ Contains(lower, BilivideoCom)
       \/ Contains(lower, AcgTv)

IsDouyinUrl(url) ==
    LET lower == ToAsciiLowercase(url)
    IN Contains(lower, DouyinCom) \/ Contains(lower, IesdouyinCom)

VideoFormatForQuality(quality, url) ==
    CASE quality = "low" -> Flag("bv*[height<=480]+ba/b[height<=480]/bv*[height<=720]+ba/b[height<=720]/worst")
      [] quality = "medium" -> Flag("bv*[height<=1080]+ba/b[height<=1080]/bv*[height<=720]+ba/b[height<=720]/b")
      [] OTHER -> IF IsBilibiliUrl(url)
                  THEN Flag("bv*[height>=2160]+ba/bv*[height>=1080]+ba/bv*+ba/b")
                  ELSE Flag("bv*+ba/b")

ApplySiteSpecificOverrides(url) ==
    IF IsDouyinUrl(url)
    THEN <<Flag("--referer"), Flag("DOUYIN_REFERER"),
           Flag("--user-agent"), Flag("DOUYIN_USER_AGENT")>>
    ELSE <<>>

\* lib.rs 262-267: the output directory, the default download directory when the
\* request names none
OutputDir(r) ==
    IF IsSome(r.output_dir) /\ Trim(Unwrap(r.output_dir)) # <<>>
    THEN Text(Trim(Unwrap(r.output_dir)))
    ELSE Flag("default_download_dir")

\* An argument list with the url pushed before the site-specific arguments.
BuildArgsUrlBeforeOverrides(r, url, ffmpeg) ==
    <<Flag("--newline"), Flag("--no-playlist"), Flag("--continue"), Flag("--no-mtime"),
      Flag("-o"), Flag("%(title)s.%(ext)s"), Flag("-P"), OutputDir(r)>>
    \o (IF r.mode = "audio"
        THEN <<Flag("-f"), Flag("bestaudio/best"), Flag("-x")>>
        ELSE <<Flag("-f"), VideoFormatForQuality(r.quality, url)>>)
    \o (IF IsSome(ffmpeg)
        THEN <<Flag("--ffmpeg-location"), Flag(Unwrap(ffmpeg))>>
        ELSE <<>>)
    \o <<Text(url)>>
    \o ApplySiteSpecificOverrides(url)

\* lib.rs 273-322: the argument list of a request with trimmed url `url`, ffmpeg
\* being the transcoder found for it (Some(source) or None)
BuildArgs(r, url, ffmpeg) ==
    <<Flag("--newline"), Flag("--no-playlist"), Flag("--continue"), Flag("--no-mtime"),
      Flag("-o"), Flag("%(title)s.%(ext)s"), Flag("-P"), OutputDir(r)>>
    \o (IF IsSome(r.browser) /\ Trim(Unwrap(r.browser)) # <<>>
        THEN <<Flag("--cookies-from-browser"), Text(Trim(Unwrap(r.browser)))>>
        ELSE <<>>)
    \o (IF r.mode = "audio"
        THEN <<Flag("-f"), Flag("bestaudio/best"), Flag("-x"), Flag("--audio-format"),
               Flag("mp3"), Flag("--embed-thumbnail"), Flag("--convert-thumbnails"),
               Flag("jpg")>>
        ELSE <<Flag("-f"), VideoFormatForQuality(r.quality, url),
               Flag("--merge-output-format"), Flag("mp4")>>)
    \o (IF IsSome(ffmpeg)
        THEN <<Flag("--ffmpeg-location"), Flag(Unwrap(ffmpeg))>>
        ELSE <<>>)
    \o ApplySiteSpecificOverrides(url)
    \o <<Text(url)>>

\* ------------------------------------------------------------------ bounds

\* The lines one process writes, to both pipes together.
MaxLines == 1
\* The lines the process of a download writes when its streams are followed.
MaxStreamLines == 2
\* The lines one process writes when two downloads run side by side.
MaxLinesConcurrent == 1
\* The last reading of the clock, in milliseconds.
MaxClock == 1
\* The emit calls the sink rejects.
MaxRejects == 1
\* The resolver calls (check, ensure, install) that are made.
MaxCalls == 2

\* --------------------------------------------------------------- results

\* Result::Err of a command, by the step that failed
Err(kind) ==
    Some([ok |-> FALSE, err |-> kind, success |-> FALSE, stdout |-> <<>>, stderr |-> <<>>])

\* Result::Ok(DownloadResponse)
OkResponse(success, stdout, stderr) ==
    Some([ok |-> TRUE, err |-> "", success |-> success, stdout |-> stdout, stderr |-> stderr])

\* An exit status that always counts as success.
ExitAlwaysSuccess(code) == TRUE

\* ExitStatus::success
ExitSuccess(code) == code = 0

\* lib.rs 380-390: lines.join("\n").trim()
Aggregate(lines) == Trim(JoinLines(lines))

\* ----------------------------------------------------------- child process

NoChild == [state |-> "none", code |-> 0]

\* A child that is left running when its handle is dropped.
DropChildDetached(c) == c

\* Dropping the Child handle of a command built with kill_on_drop(true)
\* (lib.rs 174, 328): a process that is still running is killed.
DropChild(c) == IF c.state = "running" THEN [c EXCEPT !.state = "killed"] ELSE c

\* The process of invocation i writes a line to pipe s.
ChildWrite(i, s, line, max) ==
    /\ child[i].state = "running"
    /\ req[i].kind = "download"
    /\ Len(pipe[i]["stdout"]) + Len(pipe[i]["stderr"]) < max
    /\ pipe' = [pipe EXCEPT ![i][s] = Append(@, line)]
    /\ UNCHANGED <<mainVars, child, readVars, envVars, now, resVars>>

\* The process of invocation i exits with a status.
ChildExit(i, code) ==
    /\ child[i].state = "running"
    /\ child' = [child EXCEPT ![i] = [state |-> "exited", code |-> code]]
    /\ UNCHANGED <<mainVars, pipe, readVars, envVars, now, resVars>>

\* ---------------------------------------------------------- forward_stream

\* A buffer that puts the new line first.
PushFront(entries, line) == <<line>> \o entries

\* lib.rs 531-534: entries.push(line)
Push(entries, line) == Append(entries, line)

\* A session id attached to events that is the same for every invocation.
EventSessionIdShared(i) == SessionPrefix \o <<"0">>

\* session_id.as_ref() of the reader tasks of invocation i (lib.rs 339, 350)
EventSessionId(i) == sid[i]

\* The window.emit calls the sink has rejected so far.
Rejects == Cardinality({k \in 1..Len(emitted) : ~emitted[k].ok})

\* The outcomes window.emit can have at this point.
EmitOutcomes == IF Rejects < MaxRejects THEN BOOLEAN ELSE {TRUE}

\* lib.rs 536-542: the download-log event of line k of stream s
LogEvent(i, s, k, ok) ==
    [type |-> "download-log", sessionId |-> EventSessionId(i), stream |-> s,
     line |-> buf[i][s][k], progress |-> None, inv |-> i, idx |-> k, ok |-> ok]

\* lib.rs 558-569: the download-progress event of line k of stream s
ProgressEvent(i, s, k, ok) ==
    [type |-> "download-progress", sessionId |-> EventSessionId(i), stream |-> s,
     line |-> buf[i][s][k], progress |-> ParseProgressLine(buf[i][s][k]),
     inv |-> i, idx |-> k, ok |-> ok]

\* A reader that returns an error when the sink rejects an event.
AfterEmitFatal(ok, next) == IF ok THEN next ELSE "failed"

\* lib.rs 536-545 and 558-572: if let Err(err) = window.emit(..) only prints the
\* error; the reader goes on to `next` whatever the outcome of the call
AfterEmit(ok, next) == next

\* A reader that goes on to the next line after the log event of any line.
AfterLogNoProgress(line) == "read"

\* lib.rs 547: after the log event, the progress event if the line is a progress line
AfterLog(line) == IF IsSome(ParseProgressLine(line)) THEN "progress" ELSE "read"

\* lib.rs 530-534: next_line() yields the next line of the pipe; it is pushed
ReadLine(i, s) ==
    /\ rpc[i][s] = "read"
    /\ Len(buf[i][s]) < Len(pipe[i][s])
    /\ buf' = [buf EXCEPT ![i][s] = Push(@, pipe[i][s][Len(@) + 1])]
    /\ rpc' = [rpc EXCEPT ![i][s] = "log"]
    /\ UNCHANGED <<mainVars, procVars, emitted, envVars, now, resVars>>

\* lib.rs 536-545: window.emit("download-log"), a failure is only printed
EmitLog(i, s, ok) ==
    /\ rpc[i][s] = "log"
    /\ emitted' = Append(emitted, LogEvent(i, s, Len(buf[i][s]), ok))
    /\ rpc' = [rpc EXCEPT ![i][s] = AfterEmit(ok, AfterLog(buf[i][s][Len(buf[i][s])]))]
    /\ UNCHANGED <<mainVars, procVars, buf, envVars, now, resVars>>

\* lib.rs 547-573: window.emit("download-progress"), a failure is only printed
EmitProgress(i, s, ok) ==
    /\ rpc[i][s] = "progress"
    /\ emitted' = Append(emitted, ProgressEvent(i, s, Len(buf[i][s]), ok))
    /\ rpc' = [rpc EXCEPT ![i][s] = AfterEmit(ok, "read")]
    /\ UNCHANGED <<mainVars, procVars, buf, envVars, now, resVars>>

\* lib.rs 530, 576: next_line() yields None at end-of-stream, which is reached
\* when every line is read and the process holds the pipe no more
ReadEof(i, s) ==
    /\ rpc[i][s] = "read"
    /\ Len(buf[i][s]) = Len(pipe[i][s])
    /\ child[i].state # "running"
    /\ rpc' = [rpc EXCEPT ![i][s] = "eof"]
    /\ UNCHANGED <<mainVars, procVars, buf, emitted, envVars, now, resVars>>

\* lib.rs 530: next_line().await? fails with an I/O error, the task returns Err
ReadError(i, s) ==
    /\ rpc[i][s] = "read"
    /\ rpc' = [rpc EXCEPT ![i][s] = "failed"]
    /\ UNCHANGED <<mainVars, procVars, buf, emitted, envVars, now, resVars>>

\* ---------------------------------------------------------------- commands

\* The points at which a command is suspended in an await, where its future
\* can be dropped.
AwaitPoints == {"chmod", "fetch", "write", "mkdir", "wait", "joinOut", "joinErr", "output"}

\* The command has returned or its future is gone.
Gone(i) == pc[i] \in {"done", "error", "cancelled"}

\* A command returns Err: its locals, the Child among them, are dropped.
Fail(i, kind) ==
    /\ pc' = [pc EXCEPT ![i] = "error"]
    /\ result' = [result EXCEPT ![i] = Err(kind)]
    /\ child' = [child EXCEPT ![i] = DropChild(@)]

\* lib.rs 247-258 and 159-162: the url is trimmed and an empty one rejected; a
\* download then takes its session id, reading the clock if the caller gave none
Start(i, r, t) ==
    /\ pc[i] = "idle"
    /\ t >= now
    /\ req' = [req EXCEPT ![i] = r]
    /\ IF Trim(r.url) = <<>>
       THEN /\ Fail(i, "validation")
            /\ UNCHANGED <<sid, now, resVars>>
       ELSE /\ pc' = [pc EXCEPT ![i] = "resolve"]
            /\ IF r.kind = "download"
               THEN /\ sid' = [sid EXCEPT ![i] = SessionIdFor(r.session_id, t)]
                    /\ now' = IF IsSome(r.session_id) THEN now ELSE t
               ELSE UNCHANGED <<sid, now, resVars>>
            /\ UNCHANGED <<result, child>>
    /\ UNCHANGED <<effects, args, pipe, readVars, envVars, resVars>>

\* Where a command goes on once yt_dlp::ensure_available has returned Ok
Resolved(i) == IF req[i].kind = "download" THEN "mkdir" ELSE "spawn"

\* yt_dlp::ensure_available, lines 24-34: the system binary, else the bundled
\* one, whose permissions are set again, else the download of a new one
EnsureAvailable(i) ==
    /\ pc[i] = "resolve"
    /\ IF ~DetectSystemBinary("yt-dlp") /\ ~dataDir
       THEN /\ Fail(i, "data-dir")
            /\ effects' = [effects EXCEPT ![i] = @ \cup {"resolve"}]
       ELSE /\ pc' = [pc EXCEPT ![i] =
                       IF DetectSystemBinary("yt-dlp") THEN Resolved(i)
                       ELSE IF DetectBundledBinary("yt-dlp") THEN "chmod"
                       ELSE "fetch"]
            /\ effects' = [effects EXCEPT ![i] =
                            @ \cup {"resolve"}
                              \cup (IF DetectExisting("yt-dlp") = None
                                    THEN {"network"} ELSE {})]
            /\ UNCHANGED <<result, child>>
    /\ UNCHANGED <<req, sid, args, pipe, readVars, envVars, now, resVars>>

\* yt_dlp::ensure_executable_permissions of the bundled binary (yt_dlp.rs 30)
SetPermissions(i, ok) ==
    /\ pc[i] = "chmod"
    /\ effects' = [effects EXCEPT ![i] = @ \cup {"fswrite"}]
    /\ IF ok
       THEN /\ pc' = [pc EXCEPT ![i] = Resolved(i)]
            /\ bundled' = [bundled EXCEPT !["yt-dlp"] =
                             IF @.exists THEN [@ EXCEPT !.exec = TRUE] ELSE @]
            /\ UNCHANGED <<result, child>>
       ELSE /\ Fail(i, "permission")
            /\ UNCHANGED bundled
    /\ UNCHANGED <<req, sid, args, pipe, readVars, onPath, dataDir, now, resVars>>

\* yt_dlp::download_to, lines 112-135: the request for the release and its body
DownloadToFetch(i, ok) ==
    /\ pc[i] = "fetch"
    /\ IF ok
       THEN /\ pc' = [pc EXCEPT ![i] = "write"]
            /\ UNCHANGED <<result, child>>
       ELSE Fail(i, "download")
    /\ UNCHANGED <<req, sid, effects, args, pipe, readVars, envVars, now, resVars>>

\* yt_dlp::download_to, lines 137-142: the file is written and made executable
DownloadToWrite(i, outcome) ==
    /\ pc[i] = "write"
    /\ effects' = [effects EXCEPT ![i] = @ \cup {"fswrite"}]
    /\ CASE outcome = "ok" ->
              /\ pc' = [pc EXCEPT ![i] = Resolved(i)]
              /\ bundled' = [bundled EXCEPT !["yt-dlp"] = [exists |-> TRUE, exec |-> TRUE, content |-> "new"]]
              /\ UNCHANGED <<result, child>>
         [] outcome = "chmod-failed" ->
              /\ Fail(i, "permission")
              /\ bundled' = [bundled EXCEPT !["yt-dlp"] = [exists |-> TRUE, exec |-> FALSE, content |-> "new"]]
         [] OTHER ->
              /\ Fail(i, "write")
              /\ UNCHANGED bundled
    /\ UNCHANGED <<req, sid, args, pipe, readVars, onPath, dataDir, now, resVars>>

\* Reader tasks that are spawned whether or not the process was.
ReaderTasksAlways(spawned) == [s \in Streams |-> "read"]

\* One reader task, for stdout; nothing reads stderr.
ReaderTasksStdoutOnly(spawned) ==
    [s \in Streams |-> IF spawned /\ s = "stdout" THEN "read" ELSE "none"]

\* lib.rs 329-357: the ? on command.spawn() returns before the two reader tasks
\* are spawned; they exist only once the process does
ReaderTasks(spawned) == [s \in Streams |-> IF spawned THEN "read" ELSE "none"]

\* lib.rs 269-357: once create_dir_all has returned, the argument list is built
\* (Audio needs the transcoder), the downloader is spawned with both pipes and
\* the two reader tasks are spawned
CreateDirThenSpawn(i, dirOk, spawnOk) ==
    /\ pc[i] = "mkdir"
    /\ LET ffmpeg == IF req[i].mode = "audio"
                     THEN FfmpegEnsureAvailable
                     ELSE DetectExisting("ffmpeg")
       IN IF ~dirOk
          THEN /\ Fail(i, "mkdir")
               /\ effects' = [effects EXCEPT ![i] = @ \cup {"mkdir"}]
               /\ UNCHANGED <<args, rpc>>
          ELSE IF ~DetectSystemBinary("ffmpeg") /\ ~dataDir
          THEN /\ Fail(i, "data-dir")
               /\ effects' = [effects EXCEPT ![i] = @ \cup {"mkdir"}]
               /\ UNCHANGED <<args, rpc>>
          ELSE IF req[i].mode = "audio" /\ ~IsSome(ffmpeg)
          THEN /\ Fail(i, "ffmpeg-missing")
               /\ effects' = [effects EXCEPT ![i] = @ \cup {"mkdir"}]
               /\ UNCHANGED <<args, rpc>>
          ELSE IF ~spawnOk
          THEN /\ Fail(i, "spawn")
               /\ effects' = [effects EXCEPT ![i] = @ \cup {"mkdir", "spawn"}]
               /\ args' = [args EXCEPT ![i] = BuildArgs(req[i], Trim(req[i].url), ffmpeg)]
               /\ rpc' = [rpc EXCEPT ![i] = ReaderTasks(FALSE)]
          ELSE /\ pc' = [pc EXCEPT ![i] = "wait"]
               /\ effects' = [effects EXCEPT ![i] = @ \cup {"mkdir", "spawn"}]
               /\ args' = [args EXCEPT ![i] = BuildArgs(req[i], Trim(req[i].url), ffmpeg)]
               /\ child' = [child EXCEPT ![i] = [state |-> "running", code |-> 0]]
               /\ rpc' = [rpc EXCEPT ![i] = ReaderTasks(TRUE)]
               /\ UNCHANGED result
    /\ UNCHANGED <<req, sid, pipe, buf, emitted, envVars, now, resVars>>

\* lib.rs 359-362: child.wait() returns the exit status
WaitExit(i) ==
    /\ pc[i] = "wait"
    /\ child[i].state = "exited"
    /\ pc' = [pc EXCEPT ![i] = "joinOut"]
    /\ UNCHANGED <<req, sid, result, effects, args, procVars, readVars, envVars, now, resVars>>

\* lib.rs 359-362: child.wait() fails, the command returns Err
WaitFail(i) ==
    /\ pc[i] = "wait"
    /\ Fail(i, "wait")
    /\ UNCHANGED <<req, sid, effects, args, pipe, readVars, envVars, now, resVars>>

\* A join that does not wait for the task.
ReaderFinishedAnyway(r) == TRUE

\* task.await returns: the reader task has returned Ok or Err
ReaderFinished(r) == r \in {"eof", "failed"}

\* A join that gives up the download when the reader task has failed.
JoinResultFatal(r) == IF r = "failed" THEN "abort" ELSE "continue"

\* lib.rs 365-369 and 373-377: the match on the joined task; Ok(Ok(())) goes on,
\* and so do Ok(Err(..)) and Err(..), which are only printed
JoinResult(r) ==
    CASE r = "eof" -> "continue"
      [] r = "failed" -> "continue"
      [] OTHER -> "continue"

\* lib.rs 364-370: the stdout task is awaited, its failure only printed
JoinStdout(i) ==
    /\ pc[i] = "joinOut"
    /\ ReaderFinished(rpc[i]["stdout"])
    /\ IF JoinResult(rpc[i]["stdout"]) = "continue"
       THEN /\ pc' = [pc EXCEPT ![i] = "joinErr"]
            /\ UNCHANGED <<result, child>>
       ELSE Fail(i, "read")
    /\ UNCHANGED <<req, sid, effects, args, pipe, readVars, envVars, now, resVars>>

\* One buffer per stream for all the invocations.
BufferShared(i, s) == buf[1][s]

\* lib.rs 334-335: stdout_buffer and stderr_buffer are locals of the invocation,
\* each an Arc<Mutex<Vec<String>>> of its own
Buffer(i, s) == buf[i][s]

\* lib.rs 372-397: the stderr task is awaited, its failure only printed; the two
\* buffers are aggregated and the response returned
JoinStderr(i) ==
    /\ pc[i] = "joinErr"
    /\ ReaderFinished(rpc[i]["stderr"])
    /\ IF JoinResult(rpc[i]["stderr"]) = "continue"
       THEN /\ pc' = [pc EXCEPT ![i] = "done"]
            /\ result' = [result EXCEPT ![i] =
                            OkResponse(ExitSuccess(child[i].code),
                                       Aggregate(Buffer(i, "stdout")),
                                       Aggregate(Buffer(i, "stderr")))]
            /\ UNCHANGED child
       ELSE Fail(i, "read")
    /\ UNCHANGED <<req, sid, effects, args, pipe, readVars, envVars, now, resVars>>

\* The future of a suspended command is dropped: its locals, the Child among
\* them, are dropped; the reader tasks, spawned on the runtime, are not.
Cancel(i) ==
    /\ pc[i] \in AwaitPoints
    /\ pc' = [pc EXCEPT ![i] = "cancelled"]
    /\ child' = [child EXCEPT ![i] = DropChild(@)]
    /\ UNCHANGED <<req, sid, result, effects, args, pipe, readVars, envVars, now, resVars>>

\* lib.rs 166-179: the preview spawns the downloader through Command::output
PreviewSpawn(i, spawnOk) ==
    /\ pc[i] = "spawn"
    /\ effects' = [effects EXCEPT ![i] = @ \cup {"spawn"}]
    /\ IF spawnOk
       THEN /\ pc' = [pc EXCEPT ![i] = "output"]
            /\ child' = [child EXCEPT ![i] = [state |-> "running", code |-> 0]]
            /\ UNCHANGED result
       ELSE Fail(i, "spawn")
    /\ UNCHANGED <<req, sid, args, pipe, readVars, envVars, now, resVars>>

\* lib.rs 176-218: output() returns once the process has exited; a failed exit
\* status or an unparseable document is an Err
PreviewOutput(i, jsonOk) ==
    /\ pc[i] = "output"
    /\ child[i].state = "exited"
    /\ IF ~ExitSuccess(child[i].code) THEN Fail(i, "preview-exit")
       ELSE IF ~jsonOk THEN Fail(i, "preview-json")
       ELSE /\ pc' = [pc EXCEPT ![i] = "done"]
            /\ result' = [result EXCEPT ![i] = OkResponse(TRUE, <<>>, <<>>)]
            /\ UNCHANGED child
    /\ UNCHANGED <<req, sid, effects, args, pipe, readVars, envVars, now, resVars>>

\* ------------------------------------------------------------------ inputs

NoRequest ==
    [kind |-> "none", url |-> <<>>, mode |-> "video", quality |-> "highest",
     browser |-> None, output_dir |-> None, session_id |-> None]

\* The urls of the requests: empty, whitespace only, and one to be trimmed
Urls == {<<>>, <<" ", "\t">>, <<" ", "u", " ">>}

\* The session ids a caller supplies: none, its own, and one shaped like a derived one
SessionIds == {None, Some(<<"a">>), Some(SessionPrefix \o <<"1">>)}

DownloadRequests(urls, modes, sessions) ==
    {[NoRequest EXCEPT !.kind = "download", !.url = u, !.mode = m, !.session_id = x] :
        u \in urls, m \in modes, x \in sessions}

PreviewRequests(urls) == {[NoRequest EXCEPT !.kind = "preview", !.url = u] : u \in urls}

Requests ==
    DownloadRequests(Urls, {"audio", "video"}, {None, Some(<<"a">>)})
        \cup PreviewRequests(Urls)

\* The lines a process writes: an empty one, a plain one and a progress line
ProgressLine == Marker \o <<" ", "5", "0", "%">>
Lines == {<<>>, <<"x">>, ProgressLine}

ExitCodes == {0, 1}

\* The file at a bundled path: whether it exists, whether its mode lets it be
\* executed, and what it holds: nothing ("none", "empty"), the executable of an
\* earlier install ("old"), a part of a new one ("partial") or all of it ("new")
Absent == [exists |-> FALSE, exec |-> FALSE, content |-> "none"]
Installed == [exists |-> TRUE, exec |-> TRUE, content |-> "old"]
NotExecutable == [exists |-> TRUE, exec |-> FALSE, content |-> "old"]

\* --------------------------------------------------------- binary resolver

\* What a resolver call returns: Ok(Some((path, source))) or Ok((path, source)),
\* Ok(None), Err(message)
Found(source) == [ok |-> TRUE, source |-> source, err |-> ""]
NotFound == [ok |-> TRUE, source |-> "none", err |-> ""]
Failed(kind) == [ok |-> FALSE, source |-> "none", err |-> kind]

\* detect_existing with its error: detect_bundled_binary()? fails when
\* project_dirs() finds no application data directory
DetectExistingResult(b) ==
    IF ~DetectSystemBinary(b) /\ ~dataDir THEN Failed("data-dir")
    ELSE IF IsSome(DetectExisting(b)) THEN Found(Unwrap(DetectExisting(b)))
    ELSE NotFound

\* fs::write and File::create open the target with create and truncate: a file
\* that was there keeps its mode and loses its content, a new one is not executable
Truncate(f) == [exists |-> TRUE, exec |-> f.exists /\ f.exec, content |-> "empty"]

\* ensure_executable_permissions: mode 0o755 if the path exists
SetExecutable(f) == IF f.exists THEN [f EXCEPT !.exec = TRUE] ELSE f

\* No resolver call
NoCall == [op |-> "none", bin |-> "yt-dlp", pc |-> "idle", fetched |-> FALSE,
           started |-> 0, before |-> Absent]

\* The resolver calls that are running
Running == {c \in Invocations : call[c].op # "none"}

\* A resolver call can begin
CanCall(c) == call[c].op = "none" /\ Len(trace) + Cardinality(Running) < MaxCalls

\* The call caller c begins: `started` is the number of calls that have returned
\* before it, `before` the file at the bundled path when it begins
Begun(op, b, at) ==
    [op |-> op, bin |-> b, pc |-> at, fetched |-> FALSE,
     started |-> Len(trace), before |-> bundled[b]]

\* The call of caller c returns ret, the file at the bundled path being `after`
ReturnOf(c, ret, after) ==
    [op |-> call[c].op, bin |-> call[c].bin, ret |-> ret,
     fetched |-> call[c].fetched, started |-> call[c].started,
     before |-> call[c].before, after |-> after]

Return(c, ret, after) ==
    /\ trace' = Append(trace, ReturnOf(c, ret, after))
    /\ call' = [call EXCEPT ![c] = NoCall]

\* check_yt_dlp, check_ffmpeg (lib.rs 102-117, 130-145): detect_existing, which
\* has no await
CheckBinary(c, b) ==
    /\ CanCall(c)
    /\ trace' = Append(trace, [op |-> "detect", bin |-> b,
                               ret |-> DetectExistingResult(b), fetched |-> FALSE,
                               started |-> Len(trace), before |-> bundled[b],
                               after |-> bundled[b]])
    /\ UNCHANGED <<call, mainVars, procVars, readVars, envVars, now>>

\* ffmpeg::ensure_available (ffmpeg.rs 24-27): detect_existing, None made an error
FfmpegEnsure(c) ==
    /\ CanCall(c)
    /\ trace' = Append(trace, [op |-> "ensure", bin |-> "ffmpeg",
                               ret |-> IF DetectExistingResult("ffmpeg") = NotFound
                                       THEN Failed("ffmpeg-missing")
                                       ELSE DetectExistingResult("ffmpeg"),
                               fetched |-> FALSE,
                               started |-> Len(trace), before |-> bundled["ffmpeg"],
                               after |-> bundled["ffmpeg"]])
    /\ UNCHANGED <<call, mainVars, procVars, readVars, envVars, now>>

\* yt_dlp::ensure_available (yt_dlp.rs 24-37) up to its first await: the system
\* binary, else the bundled one, whose permissions are set, else download_to
YtDlpEnsure(c) ==
    /\ CanCall(c)
    /\ IF DetectSystemBinary("yt-dlp") \/ ~dataDir
       THEN /\ trace' = Append(trace, [op |-> "ensure", bin |-> "yt-dlp",
                                       ret |-> DetectExistingResult("yt-dlp"),
                                       fetched |-> FALSE, started |-> Len(trace),
                                       before |-> bundled["yt-dlp"],
                                       after |-> bundled["yt-dlp"]])
            /\ UNCHANGED call
       ELSE /\ call' = [call EXCEPT ![c] =
                          Begun("ensure", "yt-dlp",
                                IF DetectBundledBinary("yt-dlp") THEN "chmod" ELSE "mkdir")]
            /\ UNCHANGED trace
    /\ UNCHANGED <<mainVars, procVars, readVars, envVars, now>>

\* install_yt_dlp, install_ffmpeg (lib.rs 119-127, 147-155): install_latest up to
\* the creation of the parent directory (yt_dlp.rs 39-41, ffmpeg.rs 29-39)
InstallLatest(c, b) ==
    /\ CanCall(c)
    /\ IF ~dataDir
       THEN /\ trace' = Append(trace, [op |-> "install", bin |-> b,
                                       ret |-> Failed("data-dir"),
                                       fetched |-> FALSE, started |-> Len(trace),
                                       before |-> bundled[b], after |-> bundled[b]])
            /\ UNCHANGED call
       ELSE /\ call' = [call EXCEPT ![c] = Begun("install", b, "mkdir")]
            /\ UNCHANGED trace
    /\ UNCHANGED <<mainVars, procVars, readVars, envVars, now>>

\* yt_dlp.rs 112-117, ffmpeg.rs 41-45: create_dir_all of the parent directory
CreateParentDir(c, ok) ==
    /\ call[c].pc = "mkdir"
    /\ IF ok
       THEN /\ call' = [call EXCEPT ![c].pc = "fetch"]
            /\ UNCHANGED trace
       ELSE Return(c, Failed("mkdir"), bundled[call[c].bin])
    /\ UNCHANGED <<mainVars, procVars, readVars, envVars, now>>

\* An installer that opens the target file before it requests the release.
FetchReleaseIntoTarget(c, ok) ==
    /\ call[c].pc = "fetch"
    /\ IF ok
       THEN /\ call' = [call EXCEPT ![c].pc = "create", ![c].fetched = TRUE]
            /\ UNCHANGED <<trace, envVars>>
       ELSE /\ bundled' = [bundled EXCEPT ![call[c].bin] = Truncate(@)]
            /\ trace' = Append(trace, [ReturnOf(c, Failed("download"),
                                                Truncate(bundled[call[c].bin]))
                                          EXCEPT !.fetched = TRUE])
            /\ call' = [call EXCEPT ![c] = NoCall]
            /\ UNCHANGED <<onPath, dataDir>>
    /\ UNCHANGED <<mainVars, procVars, readVars, now>>

\* yt_dlp.rs 119-135, ffmpeg.rs 47-61: the release is requested and its body read
FetchRelease(c, ok) ==
    /\ call[c].pc = "fetch"
    /\ IF ok
       THEN /\ call' = [call EXCEPT ![c].pc = "create", ![c].fetched = TRUE]
            /\ UNCHANGED trace
       ELSE /\ trace' = Append(trace, [ReturnOf(c, Failed("download"), bundled[call[c].bin])
                                          EXCEPT !.fetched = TRUE])
            /\ call' = [call EXCEPT ![c] = NoCall]
    /\ UNCHANGED <<mainVars, procVars, readVars, envVars, now>>

\* yt_dlp.rs 137, ffmpeg.rs 146-166 and 179-201: the target file is created, or
\* truncated if it is there; the ffmpeg archive may hold no entry of that name
CreateTarget(c, outcome) ==
    /\ call[c].pc = "create"
    /\ CASE outcome = "ok" ->
              /\ bundled' = [bundled EXCEPT ![call[c].bin] = Truncate(@)]
              /\ call' = [call EXCEPT ![c].pc = "write"]
              /\ UNCHANGED trace
         [] outcome = "no-entry" /\ call[c].bin = "ffmpeg" ->
              /\ Return(c, Failed("extract"), bundled[call[c].bin])
              /\ UNCHANGED bundled
         [] OTHER ->
              /\ Return(c, Failed("write"), bundled[call[c].bin])
              /\ UNCHANGED bundled
    /\ UNCHANGED <<mainVars, procVars, readVars, onPath, dataDir, now>>

\* yt_dlp.rs 137-139, ffmpeg.rs 167-168 and 202-203: the bytes are written; a
\* failure leaves what was written so far
WriteTarget(c, ok) ==
    /\ call[c].pc = "write"
    /\ IF ok
       THEN /\ bundled' = [bundled EXCEPT ![call[c].bin].content = "new"]
            /\ call' = [call EXCEPT ![c].pc = "chmod"]
            /\ UNCHANGED trace
       ELSE /\ bundled' = [bundled EXCEPT ![call[c].bin].content = "partial"]
            /\ Return(c, Failed("write"), [bundled[call[c].bin] EXCEPT !.content = "partial"])
    /\ UNCHANGED <<mainVars, procVars, readVars, onPath, dataDir, now>>

\* yt_dlp.rs 30 and 141, ffmpeg.rs 68: ensure_executable_permissions, after which
\* the call returns the bundled path
EnsureExecutablePermissions(c, ok) ==
    /\ call[c].pc = "chmod"
    /\ IF ok
       THEN /\ bundled' = [bundled EXCEPT ![call[c].bin] = SetExecutable(@)]
            /\ Return(c, Found("bundled"), SetExecutable(bundled[call[c].bin]))
       ELSE /\ UNCHANGED bundled
            /\ Return(c, Failed("permission"), bundled[call[c].bin])
    /\ UNCHANGED <<mainVars, procVars, readVars, onPath, dataDir, now>>

\* ---------------------------------------------------------- specification

InitCommands ==
    /\ pc = [i \in Invocations |-> "idle"]
    /\ req = [i \in Invocations |-> NoRequest]
    /\ sid = [i \in Invocations |-> <<>>]
    /\ result = [i \in Invocations |-> None]
    /\ effects = [i \in Invocations |-> {}]
    /\ args = [i \in Invocations |-> <<>>]
    /\ child = [i \in Invocations |-> NoChild]
    /\ pipe = [i \in Invocations |-> [s \in Streams |-> <<>>]]
    /\ buf = [i \in Invocations |-> [s \in Streams |-> <<>>]]
    /\ rpc = [i \in Invocations |-> [s \in Streams |-> "none"]]
    /\ emitted = <<>>
    /\ now = 0
    /\ call = [c \in Invocations |-> NoCall]
    /\ trace = <<>>

\* Any state of the two binaries on a machine with an application data directory
Init ==
    /\ InitCommands
    /\ dataDir = TRUE
    /\ onPath \in [Binaries -> BOOLEAN]
    /\ \E yt \in {Absent, NotExecutable}, ff \in {Absent, Installed} :
          bundled = [b \in Binaries |-> IF b = "yt-dlp" THEN yt ELSE ff]

\* Both binaries are installed on the system search path
InitSystemBinaries ==
    /\ InitCommands
    /\ dataDir = TRUE
    /\ onPath = [b \in Binaries |-> TRUE]
    /\ bundled = [b \in Binaries |-> Absent]

\* A command is called, validates its url and resolves the downloader
Preflight(i, requests, times) ==
    \/ \E r \in requests, t \in times : Start(i, r, t)
    \/ EnsureAvailable(i)

\* The downloader is not on the system search path: its bundled copy is made
\* executable again, or a new one is downloaded
Provision(i) ==
    \/ \E ok \in BOOLEAN : SetPermissions(i, ok)
    \/ \E ok \in BOOLEAN : DownloadToFetch(i, ok)
    \/ \E outcome \in {"ok", "chmod-failed", "write-failed"} : DownloadToWrite(i, outcome)

\* lib.rs 269-357: the output directory, the argument list, the process and
\* the reader tasks
Launch(i) ==
    \E dirOk \in BOOLEAN, spawnOk \in BOOLEAN : CreateDirThenSpawn(i, dirOk, spawnOk)

\* lib.rs 359-397: the wait for the exit, the two joins and the response
Await(i) ==
    \/ WaitExit(i)
    \/ JoinStdout(i)
    \/ JoinStderr(i)

\* A command ends early: the wait fails, or its future is dropped
Abort(i) ==
    \/ WaitFail(i)
    \/ Cancel(i)

\* fetch_media_preview once the downloader is resolved
Preview(i) ==
    \/ \E spawnOk \in BOOLEAN : PreviewSpawn(i, spawnOk)
    \/ \E jsonOk \in BOOLEAN : PreviewOutput(i, jsonOk)

\* The downloader process of invocation i
Process(i, lines, maxLines, codes) ==
    \/ \E s \in Streams, line \in lines : ChildWrite(i, s, line, maxLines)
    \/ \E code \in codes : ChildExit(i, code)

\* The two reader tasks of invocation i, on a sink that takes every event
Drain(i) ==
    \/ \E s \in Streams : ReadLine(i, s)
    \/ \E s \in Streams : EmitLog(i, s, TRUE)
    \/ \E s \in Streams : EmitProgress(i, s, TRUE)
    \/ \E s \in Streams : ReadEof(i, s)

\* The two reader tasks of invocation i, with pipes that can fail and a sink
\* that can reject an event
Readers(i) ==
    \/ \E s \in Streams : ReadLine(i, s)
    \/ \E s \in Streams, ok \in EmitOutcomes : EmitLog(i, s, ok)
    \/ \E s \in Streams, ok \in EmitOutcomes : EmitProgress(i, s, ok)
    \/ \E s \in Streams : ReadEof(i, s)
    \/ \E s \in Streams : ReadError(i, s)

\* One command, download or preview, on any machine
Next ==
    \/ Preflight(1, Requests, {0})
    \/ Provision(1)
    \/ Launch(1)
    \/ Await(1)
    \/ Abort(1)
    \/ Preview(1)
    \/ Process(1, Lines, MaxLines, ExitCodes)
    \/ Readers(1)

Spec == Init /\ [][Next]_vars

\* One download on a machine with both binaries, its process writing more lines
StreamRequests == DownloadRequests({<<" ", "u", " ">>}, {"video"}, {Some(<<"a">>)})

NextStream ==
    \/ Preflight(1, StreamRequests, {0})
    \/ Launch(1)
    \/ Await(1)
    \/ Abort(1)
    \/ Process(1, Lines, MaxStreamLines, ExitCodes)
    \/ Readers(1)

SpecStream == InitSystemBinaries /\ [][NextStream]_vars

\* Two downloads side by side on a machine with both binaries, sharing the sink
ConcurrentRequests == DownloadRequests({<<" ", "u", " ">>}, {"video"}, SessionIds)

NextConcurrent ==
    \E i \in Invocations :
        \/ Preflight(i, ConcurrentRequests, 0..MaxClock)
        \/ Launch(i)
        \/ Await(i)
        \/ Process(i, {<<"x">>, ProgressLine}, MaxLinesConcurrent, {0})
        \/ Drain(i)

SpecConcurrent == InitSystemBinaries /\ [][NextConcurrent]_vars

\* Any state of the two binaries on any machine; without an application data
\* directory there is no bundled path and no file at it
InitResolver ==
    /\ InitCommands
    /\ onPath \in [Binaries -> BOOLEAN]
    /\ dataDir \in BOOLEAN
    /\ bundled \in [Binaries -> {Absent, Installed, NotExecutable}]
    /\ ~dataDir => bundled = [b \in Binaries |-> Absent]

\* detect_existing, through check_yt_dlp and check_ffmpeg
Detect(c) == \E b \in Binaries : CheckBinary(c, b)

\* ensure_available of either binary
Ensure(c) ==
    \/ YtDlpEnsure(c)
    \/ FfmpegEnsure(c)

\* install_latest of either binary, and download_to of yt-dlp, step by step
Installer(c) ==
    \/ \E b \in Binaries : InstallLatest(c, b)
    \/ \E ok \in BOOLEAN : CreateParentDir(c, ok)
    \/ \E ok \in BOOLEAN : FetchRelease(c, ok)
    \/ \E outcome \in {"ok", "no-entry", "failed"} : CreateTarget(c, outcome)
    \/ \E ok \in BOOLEAN : WriteTarget(c, ok)
    \/ \E ok \in BOOLEAN : EnsureExecutablePermissions(c, ok)

\* The resolver calls of two callers, side by side
NextResolver ==
    \E c \in Invocations :
        \/ Detect(c)
        \/ Ensure(c)
        \/ Installer(c)

SpecResolver == InitResolver /\ [][NextResolver]_vars

\* The requests whose argument lists are built: urls to be trimmed, one of them
\* of Douyin and one of Bilibili, both modes, two qualities, with and without
\* a browser for the cookies
BuildUrls == {<<" ", "u", " ">>, <<" ">> \o DouyinCom, B23Tv \o <<"\t">>}

BuildRequests ==
    {[r EXCEPT !.quality = q, !.browser = b] :
        r \in DownloadRequests(BuildUrls, {"audio", "video"}, {Some(<<"a">>)}),
        q \in {"highest", "low"},
        b \in {None, Some(<<" ", "c">>)}}

\* The downloader is on the system search path, ffmpeg is not: it is bundled,
\* or absent until install_ffmpeg puts it there
InitBuilds ==
    /\ InitCommands
    /\ dataDir = TRUE
    /\ onPath = [b \in Binaries |-> b = "yt-dlp"]
    /\ \E ff \in {Absent, Installed} :
          bundled = [b \in Binaries |-> IF b = "ffmpeg" THEN ff ELSE Absent]

\* The request of a download: any, or the one the other download was called with
RepeatedRequests(i) ==
    IF \E j \in Invocations \ {i} : req[j] # NoRequest
    THEN {req[j] : j \in {k \in Invocations \ {i} : req[k] # NoRequest}}
    ELSE BuildRequests

\* Two downloads of one request up to the spawn of their processes, beside the
\* install commands of one caller
NextBuilds ==
    \/ \E i \in Invocations :
          \/ Preflight(i, RepeatedRequests(i), {0})
          \/ Launch(i)
    \/ Installer(1)

SpecBuilds == InitBuilds /\ [][NextBuilds]_vars

\* One download up to the spawn of its process, on any machine: each binary on
\* the system search path or not, bundled or not, with or without an application
\* data directory
NextMachines ==
    \/ Preflight(1, BuildRequests, {0})
    \/ Provision(1)
    \/ Launch(1)

SpecMachines == InitResolver /\ [][NextMachines]_vars

\* The lines a reader parses. Percent texts that are numbers, with the value each
\* one denotes (sign, mantissa, power of ten) and whether it is at least 100
Number(text, neg, mant, exp10, atLeast100) ==
    [text |-> text, atLeast100 |-> atLeast100,
     value |-> [kind |-> "finite", neg |-> neg, mant |-> mant, exp10 |-> exp10]]

Numbers ==
    {Number(<<"5">>, FALSE, 5, 0, FALSE),
     Number(<<"4", "5", ".", "2">>, FALSE, 452, 0 - 1, FALSE),
     Number(<<"1", "0", "0">>, FALSE, 100, 0, TRUE),
     Number(<<"1", "5", "0">>, FALSE, 150, 0, TRUE),
     Number(<<"-", "1">>, TRUE, 1, 0, FALSE)}

\* Percent texts that are no numbers
NotNumbers == {<<"x">>, <<"4", ",", "5">>}

Totals == {<<"1", "0", ".", "0", "0", "M", "i", "B">>}
Speeds == {<<"1", ".", "2", "0", "M", "i", "B", "/", "s">>}
Etas == {<<"0", "0", ":", "0", "5">>}
Durations == {<<"0", "0", ":", "0", "2">>}

\* "[download]<sp>P% of T at S ETA E"
DownloadingLine(sp, p, t, sd, e) ==
    Marker \o sp \o p \o <<"%", " ", "o", "f", " ">> \o t \o <<" ", "a", "t", " ">> \o sd \o <<" ", "E", "T", "A", " ">> \o e

\* "[download]<sp>P% of T in D"
FinishedLine(sp, p, t, d) ==
    Marker \o sp \o p \o <<"%", " ", "o", "f", " ">> \o t \o <<" ", "i", "n", " ">> \o d

\* "[download] P%<remainder>"
MarkerLine(p, r) == Marker \o <<" ">> \o p \o Percent \o r

\* Remainders: none, a word, a duration without a total, the word ETA alone
Remainders == {<<>>, <<" ", "x">>, <<" ", "i", "n", " ", "0", "0", ":", "0", "2">>, <<" ", "E", "T", "A">>}

ParseLines ==
    {DownloadingLine(sp, n.text, t, sd, e) :
        sp \in {<<" ">>, <<" ", " ">>}, n \in Numbers, t \in Totals, sd \in Speeds, e \in Etas}
    \cup {FinishedLine(<<" ">>, n.text, t, d) : n \in Numbers, t \in Totals, d \in Durations}
    \cup {MarkerLine(n.text, r) : n \in Numbers, r \in Remainders}
    \cup {MarkerLine(x, r) : x \in NotNumbers \cup {<<>>}, r \in {<<>>, <<" ", "x">>}}
    \cup {Marker, Marker \o <<" ", "5">>, Marker \o MarkerLine(<<"5">>, <<>>),
          <<" ">> \o MarkerLine(<<"5">>, <<>>), <<"x">>, <<>>, <<"5", "%", " ", "o", "f", " ", "1", "0", ".", "0", "0", "M", "i", "B">>}

\* The lines the process of the download writes when its lines are parsed.
MaxParseLines == 1

\* One download on a machine with both binaries: its process writes lines of any
\* of these shapes, and the reader tasks parse them
NextParse ==
    \/ Preflight(1, StreamRequests, {0})
    \/ Launch(1)
    \/ Process(1, ParseLines, MaxParseLines, {0})
    \/ Drain(1)

SpecParse == InitSystemBinaries /\ [][NextParse]_vars

\* A step of the reader task of pipe s of download i on a line that is no
\* progress line: the line is read, its log event emitted, the end of the pipe seen
ReaderStep(i, s) ==
    \/ ReadLine(i, s)
    \/ \E ok \in EmitOutcomes : EmitLog(i, s, ok)
    \/ ReadEof(i, s)

\* The lines of a process that reports no progress
PlainLines == {<<>>, <<"x">>}

\* One download that is not cancelled, its process writing plain lines to either
\* pipe in any order and exiting when it will; a pipe can fail
NextFair ==
    \/ Preflight(1, StreamRequests, {0})
    \/ Launch(1)
    \/ Await(1)
    \/ Process(1, PlainLines, MaxStreamLines, ExitCodes)
    \/ \E s \in Streams : ReaderStep(1, s)
    \/ \E s \in Streams : ReadError(1, s)

\* The runtime is fair to its tasks: a reader task that can take a step takes it,
\* whatever the other task does, and so does the command (tokio polls every task
\* that is ready); nothing is assumed of the process
Fairness ==
    /\ \A s \in Streams : WF_vars(ReaderStep(1, s))
    /\ WF_vars(Await(1))

SpecFair == InitSystemBinaries /\ [][NextFair]_vars /\ Fairness

\* ------------------------------------------------------------------ claims

\* The fields inv and idx of an entry of `emitted` are the model's record of
\* which reader task made the call and for which line of its pipe; the payload
\* the sink receives holds sessionId, stream and line (a log event) or sessionId
\* and the parsed progress (a progress event).

\* The calls of the reader tasks of invocation i, in order
EventsOf(i) == SelectSeq(emitted, LAMBDA e : e.inv = i)

\* The events the sink has taken, in order
Sink == SelectSeq(emitted, LAMBDA e : e.ok)

\* What a subscriber of the sink gets by filtering the log events by session id
\* and stream
LogOf(session, s) ==
    SelectSeq(Sink, LAMBDA e :
        e.type = "download-log" /\ e.sessionId = session /\ e.stream = s)

\* C1: a download or preview invocation that is gone, by its return, its failure
\* (the failure of the wait for the exit included) or the drop of its future,
\* has no child process still running.
C1_NoOrphanedChild ==
    \A i \in Invocations : Gone(i) => child[i].state # "running"

\* C1: the wait for the exit has failed while the process was running, and the
\* process was killed.
C1_Witness ==
    \E i \in Invocations :
        /\ pc[i] = "error"
        /\ result[i] = Err("wait")
        /\ child[i].state = "killed"

\* C2: once a download is cancelled, no line is appended to its buffers and no
\* log or progress event of its session is emitted by its reader tasks.
C2_NoOutputAfterCancel ==
    [][\A i \in Invocations :
          pc[i] = "cancelled" => /\ buf'[i] = buf[i]
                                 /\ EventsOf(i)' = EventsOf(i)]_vars

\* C3: the buffer of a stream is a prefix of the lines the process wrote to that
\* pipe, and the log events emitted for that session and stream carry these
\* lines in the same order, one each.
C3_LineOrderPreserved ==
    \A i \in Invocations : \A s \in Streams :
        /\ IsPrefixOf(buf[i][s], pipe[i][s])
        /\ pc[i] # "idle" =>
             LET logs == SelectSeq(emitted, LAMBDA e :
                             e.type = "download-log" /\ e.sessionId = sid[i]
                                                     /\ e.stream = s)
             IN /\ Len(logs) <= Len(pipe[i][s])
                /\ \A k \in 1..Len(logs) : logs[k].line = pipe[i][s][k]
                /\ LogOf(sid[i], s) = SelectSeq(logs, LAMBDA e : e.ok)

\* C3: two different lines of one stream are buffered and both are logged.
C3_Witness ==
    \E i \in Invocations : \E s \in Streams :
        /\ Len(buf[i][s]) = 2
        /\ buf[i][s][1] # buf[i][s][2]
        /\ rpc[i][s] = "read"
        /\ Len(LogOf(sid[i], s)) = 2

Response(i) == Unwrap(result[i])

\* A download that has returned Ok
Returned(i) == pc[i] = "done" /\ req[i].kind = "download"

\* C5: a download returns its response only after the process has exited and both
\* reader tasks have finished; when both have finished at the end of their
\* streams, each aggregated text is the join with newlines, in order, of every
\* line the process wrote to that pipe, with the white space at the two ends of
\* the joined text removed.
C5_ReturnsAfterExitAndDrain ==
    \A i \in Invocations :
        Returned(i) =>
            /\ child[i].state = "exited"
            /\ \A s \in Streams : rpc[i][s] \in {"eof", "failed"}
            /\ (\A s \in Streams : rpc[i][s] = "eof") =>
                 /\ \A s \in Streams : buf[i][s] = pipe[i][s]
                 /\ Response(i).stdout = Trim(JoinLines(pipe[i]["stdout"]))
                 /\ Response(i).stderr = Trim(JoinLines(pipe[i]["stderr"]))

\* C5: a download has returned after a blank line and a line on stdout, both
\* read to the end of the stream; the blank line is not in the aggregated text.
C5_Witness ==
    \E i \in Invocations :
        /\ Returned(i)
        /\ \A s \in Streams : rpc[i][s] = "eof"
        /\ pipe[i]["stdout"] = << <<>>, <<"x">> >>
        /\ Response(i).stdout = <<"x">>

\* C5 as stated: when both readers have finished without error, the aggregated
\* texts are the lines the process wrote, joined with newlines, none dropped.
C5_AsStated ==
    \A i \in Invocations :
        (Returned(i) /\ \A s \in Streams : rpc[i][s] = "eof") =>
            /\ Response(i).stdout = JoinLines(pipe[i]["stdout"])
            /\ Response(i).stderr = JoinLines(pipe[i]["stderr"])

\* C6: the exit status of the downloader is reported as data: the download
\* returns Ok with success true exactly when the status is 0, and with the
\* captured stderr; a download whose process has exited ends in an error only by
\* the failure of the wait itself.
C6_ExitStatusAsData ==
    \A i \in Invocations :
        /\ Returned(i) =>
             /\ Response(i).ok
             /\ Response(i).success = (child[i].code = 0)
             /\ Response(i).stderr = Trim(JoinLines(buf[i]["stderr"]))
        /\ (req[i].kind = "download" /\ pc[i] = "error" /\ child[i].state = "exited") =>
             Response(i).err = "wait"

\* C6: the process has written to stderr and exited with status 1, and the
\* download has returned Ok with success false and that text.
C6_Witness ==
    \E i \in Invocations :
        /\ Returned(i)
        /\ child[i] = [state |-> "exited", code |-> 1]
        /\ Response(i) = [ok |-> TRUE, err |-> "", success |-> FALSE,
                          stdout |-> <<>>, stderr |-> <<"x">>]

\* C7: when a reader task has failed, the download still returns Ok with success
\* taken from the exit status; the aggregated text of the failed stream is that
\* of the lines buffered before the failure, and the aggregated text of a stream
\* read to its end is that of all the lines written to it.
C7_ReaderFailureNotFatal ==
    \A i \in Invocations :
        /\ (Returned(i) /\ \E s \in Streams : rpc[i][s] = "failed") =>
             /\ Response(i).ok
             /\ Response(i).success = (child[i].code = 0)
             /\ \A s \in Streams :
                  LET text == IF s = "stdout" THEN Response(i).stdout
                                              ELSE Response(i).stderr
                  IN IF rpc[i][s] = "failed"
                     THEN text = Trim(JoinLines(buf[i][s]))
                     ELSE text = Trim(JoinLines(pipe[i][s]))
        /\ (req[i].kind = "download" /\ pc[i] = "error") => Response(i).err # "read"
        /\ (pc[i] \in {"joinOut", "joinErr"} /\ \A s \in Streams : ReaderFinished(rpc[i][s]))
             => ENABLED (JoinStdout(i) \/ JoinStderr(i))

\* C7: the stdout reader has failed after the first of two lines, the stderr
\* reader has reached the end, and the download has returned Ok with the first
\* line only.
C7_Witness ==
    \E i \in Invocations :
        /\ Returned(i)
        /\ rpc[i]["stdout"] = "failed"
        /\ rpc[i]["stderr"] = "eof"
        /\ Len(pipe[i]["stdout"]) = 2
        /\ Len(buf[i]["stdout"]) = 1
        /\ Response(i).ok
        /\ Response(i).stdout = Trim(buf[i]["stdout"][1])
        /\ Response(i).stdout # <<>>

\* A url that is empty or made of white space only
IsBlank(url) == \A k \in 1..Len(url) : url[k] \in {" ", "\t", "\n"}

\* C8: a download or preview request whose url is empty or white space only is
\* rejected with the validation error, and no binary is resolved, nothing is
\* fetched or written, no directory is made, no process is spawned and no event
\* is emitted for it.
C8_BlankUrlRejectedFirst ==
    \A i \in Invocations :
        (req[i].kind \in {"download", "preview"} /\ IsBlank(req[i].url)) =>
            /\ pc[i] = "error"
            /\ result[i] = Err("validation")
            /\ effects[i] = {}
            /\ child[i] = NoChild
            /\ args[i] = <<>>
            /\ \A s \in Streams : rpc[i][s] = "none" /\ buf[i][s] = <<>>
            /\ EventsOf(i) = <<>>

\* C8: a download request with a url of white space only has been rejected.
C8_Witness ==
    \E i \in Invocations :
        /\ req[i].kind = "download"
        /\ req[i].url = <<" ", "\t">>
        /\ result[i] = Err("validation")

EventsFor(type, i, s, k) ==
    {n \in 1..Len(emitted) :
        /\ emitted[n].type = type
        /\ emitted[n].inv = i
        /\ emitted[n].stream = s
        /\ emitted[n].idx = k}

\* C10: for every line read from a pipe the reader emits one log event, with the
\* line, the stream and the session id, and for a line the parser recognizes one
\* progress event too, after the log event; for any other line none. All the
\* events of a line are emitted when the next line of the stream is buffered:
\* only the events of the last line buffered can be still to come.
C10_OneLogOneProgressPerLine ==
    \A i \in Invocations : \A s \in Streams :
        /\ \A n \in 1..Len(emitted) :
             (emitted[n].inv = i /\ emitted[n].stream = s) =>
                 /\ emitted[n].idx \in 1..Len(buf[i][s])
                 /\ emitted[n].sessionId = sid[i]
                 /\ emitted[n].line = pipe[i][s][emitted[n].idx]
        /\ \A k \in 1..Len(buf[i][s]) :
             LET last == k = Len(buf[i][s])
                 recognized == IsSome(ParseProgressLine(pipe[i][s][k]))
                 logs == EventsFor("download-log", i, s, k)
                 progs == EventsFor("download-progress", i, s, k)
             IN /\ Cardinality(logs) = IF last /\ rpc[i][s] = "log" THEN 0 ELSE 1
                /\ Cardinality(progs) =
                     IF ~recognized THEN 0
                     ELSE IF last /\ rpc[i][s] \in {"log", "progress"} THEN 0
                     ELSE 1
                /\ \A n \in progs :
                     /\ emitted[n].progress = ParseProgressLine(pipe[i][s][k])
                     /\ \E m \in logs : m < n

\* C10: a stream has carried a progress line and then another line; the log
\* event and the progress event of the first are emitted, in this order, and the
\* log event of the second.
C10_Witness ==
    \E i \in Invocations : \E s \in Streams :
        /\ Len(buf[i][s]) = 2
        /\ buf[i][s][1] = ProgressLine
        /\ buf[i][s][2] = <<"x">>
        /\ rpc[i][s] = "read"
        /\ Len(emitted) = 3
        /\ emitted[1].type = "download-log"
        /\ emitted[2].type = "download-progress"
        /\ emitted[3].type = "download-log"
        /\ emitted[3].idx = 2

\* The positions in `emitted` of the events the sink has rejected
Rejected == {n \in 1..Len(emitted) : ~emitted[n].ok}

C12_OneSessionIdPerInvocation ==
    \A n \in 1..Len(emitted) :
        LET i == emitted[n].inv
        IN /\ \A m \in 1..Len(emitted) :
                emitted[m].inv = i => emitted[m].sessionId = emitted[n].sessionId
           /\ emitted[n].sessionId = sid[i]
           /\ IF IsSome(req[i].session_id)
              THEN emitted[n].sessionId = Unwrap(req[i].session_id)
              ELSE /\ IsPrefixOf(SessionPrefix, emitted[n].sessionId)
                   /\ Len(emitted[n].sessionId) > Len(SessionPrefix)

\* C12: a download called with the session id "a" has emitted the log event and
\* the progress event of a progress line, both with that id.
C12_Witness ==
    \E i \in Invocations :
        /\ req[i].session_id = Some(<<"a">>)
        /\ Len(EventsOf(i)) = 2
        /\ EventsOf(i)[1].type = "download-log"
        /\ EventsOf(i)[2].type = "download-progress"
        /\ EventsOf(i)[1].sessionId = <<"a">>
        /\ EventsOf(i)[2].sessionId = <<"a">>

\* What belongs to invocation i alone
Local(i) == <<pc[i], req[i], sid[i], result[i], effects[i], args[i],
              child[i], pipe[i], buf[i], rpc[i]>>

\* C13: concurrent downloads are independent: the lines in the buffers of a
\* download are lines of its own process, the aggregated stdout and stderr it
\* returns are those of all the lines its own process wrote to that pipe, and no
\* step of one download or of its readers changes what belongs to another.
C13_InvocationsIndependent ==
    /\ [](\A i \in Invocations :
            /\ \A s \in Streams : IsPrefixOf(buf[i][s], pipe[i][s])
            /\ Returned(i) =>
                 /\ Response(i).stdout = Trim(JoinLines(pipe[i]["stdout"]))
                 /\ Response(i).stderr = Trim(JoinLines(pipe[i]["stderr"])))
    /\ [][\A i, j \in Invocations :
            (i # j /\ Local(i)' # Local(i)) => Local(j)' = Local(j)]_vars

\* C13: two downloads whose processes wrote different lines to stdout, read by
\* interleaved readers, have both returned, each with its own line.
C13_Witness ==
    /\ Returned(1)
    /\ Returned(2)
    /\ pipe[1]["stdout"] = << <<"x">> >>
    /\ pipe[2]["stdout"] = <<ProgressLine>>
    /\ Response(1).stdout = <<"x">>
    /\ Response(2).stdout = ProgressLine
    /\ Len(emitted) = 3
    /\ emitted[1].inv = 2
    /\ emitted[2].inv = 1
    /\ emitted[3].inv = 2

\* The calls of an operation on a binary that have returned, as positions in `trace`
Calls(op, b) == {k \in 1..Len(trace) : trace[k].op = op /\ trace[k].bin = b}

\* What C14 says of the ensure calls of binary b: the system binary first, then
\* the bundled one, and with neither the Installer is invoked and its result
\* returned as Bundled.
EnsureContract(b) ==
    \A k \in Calls("ensure", b) :
        IF onPath[b] THEN trace[k].ret = Found("system") /\ ~trace[k].fetched
        ELSE IF trace[k].before.exists
        THEN /\ ~trace[k].fetched
             /\ trace[k].ret.ok => trace[k].ret = Found("bundled")
        ELSE dataDir =>
             /\ trace[k].fetched \/ trace[k].ret = Failed("mkdir")
             /\ trace[k].ret.ok => /\ trace[k].ret = Found("bundled")
                                   /\ trace[k].after.exists

\* C14: for each of the two binaries, ensure follows the precedence of detect and,
\* when the binary is neither on the system nor at the bundled path, invokes the
\* Installer and returns the installed path as Bundled.
C14_EnsureInstallsWhenMissing == \A b \in Binaries : EnsureContract(b)

\* The calls k and m of `trace` were made in sequence, the second begun after the
\* return of the first, with no other resolver call at work from the beginning
\* of the first to the return of the second.
InSequence(k, m) ==
    /\ k < m
    /\ trace[m].started >= k
    /\ \A j \in 1..Len(trace) :
         j \notin {k, m} => (j <= trace[k].started \/ trace[j].started >= m)
    /\ \A c \in Running : call[c].started >= m

\* C15: two ensure calls made in sequence for a binary that is not on the system
\* search path and is at its bundled path fetch nothing and leave the content of
\* the file as it was; each returns the bundled path with source Bundled (unless
\* the permissions of the file cannot be set, which is an error), so two calls
\* that return Ok return the same.
C15_EnsureIdempotentWhenBundled ==
    \A b \in Binaries : \A k, m \in Calls("ensure", b) :
        (InSequence(k, m) /\ ~onPath[b] /\ trace[k].before.exists) =>
            /\ ~trace[k].fetched /\ ~trace[m].fetched
            /\ trace[k].after.content = trace[k].before.content
            /\ trace[m].before = trace[k].after
            /\ trace[m].after.content = trace[k].before.content
            /\ \A j \in {k, m} :
                 trace[j].ret \in {Found("bundled"), Failed("permission")}
            /\ (trace[k].ret.ok /\ trace[m].ret.ok) => trace[k].ret = trace[m].ret

\* C15: yt-dlp is at its bundled path only, not executable; two ensure calls in
\* sequence have both returned Bundled, with nothing fetched and the same content.
C15_Witness ==
    /\ Len(trace) = 2
    /\ InSequence(1, 2)
    /\ ~onPath["yt-dlp"]
    /\ \A k \in {1, 2} : /\ trace[k].op = "ensure"
                         /\ trace[k].bin = "yt-dlp"
                         /\ trace[k].ret = Found("bundled")
                         /\ ~trace[k].fetched
    /\ trace[1].before = NotExecutable
    /\ trace[2].after = [NotExecutable EXCEPT !.exec = TRUE]

\* The last call of `trace` has just returned, and it is a detect call
DetectReturns ==
    /\ Len(trace') = Len(trace) + 1
    /\ trace'[Len(trace')].op = "detect"

\* C16: detect (and the check command made of it) returns System whenever the
\* binary is on the system search path, even with a bundled copy; Bundled only
\* when it is not and the file at the bundled path exists; none when it is not and
\* there is no such file; an error when it is not and there is no application
\* data directory to have a bundled path in. It fetches nothing, installs
\* nothing and changes no file.
C16_DetectPrecedenceNoEffect ==
    /\ [](\A b \in Binaries : \A k \in Calls("detect", b) :
            /\ trace[k].ret =
                 IF onPath[b] THEN Found("system")
                 ELSE IF ~dataDir THEN Failed("data-dir")
                 ELSE IF trace[k].before.exists THEN Found("bundled")
                 ELSE NotFound
            /\ ~trace[k].fetched
            /\ trace[k].after = trace[k].before)
    /\ [][DetectReturns => UNCHANGED <<envVars, call, effects, child>>]_vars

\* C16: the binary is on the system search path and at its bundled path too, and
\* detect has returned System.
C16_Witness ==
    \E b \in Binaries : \E k \in Calls("detect", b) :
        /\ onPath[b]
        /\ trace[k].before = Installed
        /\ trace[k].ret = Found("system")

\* C16 as stated: detect returns System, Bundled or none, and none whenever the
\* binary is neither on the system search path nor at the bundled path.
C16_AsStated ==
    \A b \in Binaries : \A k \in Calls("detect", b) :
        trace[k].ret =
            IF onPath[b] THEN Found("system")
            ELSE IF trace[k].before.exists THEN Found("bundled")
            ELSE NotFound

\* A file at the bundled path that holds nothing yet or a part of an executable
Incomplete(f) == f.exists /\ f.content \in {"empty", "partial"}

\* C17: the Installer replaces the file at the target path atomically: whatever a
\* detect or ensure call finds at the target path, at any moment of an install, is
\* no file, the previous file or the complete new executable, never an empty or
\* partly written file.
C17_InstallAtomic ==
    \A k \in 1..Len(trace) :
        trace[k].op \in {"detect", "ensure"} => ~Incomplete(trace[k].before)

\* What C18 says of the ensure calls of binary b: a call that has returned
\* Bundled has left the file at the bundled path executable.
ExecutableAfterEnsure(b) ==
    \A k \in Calls("ensure", b) :
        trace[k].ret = Found("bundled") => trace[k].after.exists /\ trace[k].after.exec

\* C18: for either binary, every ensure call that returns source Bundled has set
\* the executable permission of the bundled file again: when it returns, the file
\* is executable whatever its mode was before.
C18_EnsureReappliesPermissions == \A b \in Binaries : ExecutableAfterEnsure(b)
\* The downloads whose argument list has been built
Built == {i \in Invocations : args[i] # <<>>}

\* C19: the Argument Builder is deterministic and free of I/O: two builds for
\* identical download requests give identical argument lists, whatever the state
\* of the filesystem or of the environment at the time of each build.
C19_BuildsOfOneRequestAgree ==
    \A i, j \in Built : req[i] = req[j] => args[i] = args[j]

\* The places of an argument list that hold the flag `name`
Places(list, name) == {k \in 1..Len(list) : list[k] = Flag(name)}

\* url is text with blanks before and after it, and none at its own ends
TrimmedFrom(url, text) ==
    /\ url # <<>>
    /\ ~IsWhitespace(url[1]) /\ ~IsWhitespace(url[Len(url)])
    /\ \E a \in 0..Len(text) :
          /\ a + Len(url) <= Len(text)
          /\ SubSeq(text, a + 1, a + Len(url)) = url
          /\ \A k \in (1..a) \cup ((a + Len(url) + 1)..Len(text)) : IsWhitespace(text[k])

\* C20: for every download that reaches process spawn, the trimmed url is the
\* last element of the argument list, after every mode, transcoder-location and
\* site-specific argument.
C20_UrlIsLastArgument ==
    \A i \in Built :
        LET last == args[i][Len(args[i])]
        IN /\ last.lit = ""
           /\ TrimmedFrom(last.text, req[i].url)
           /\ \A name \in {"-f", "-x", "--merge-output-format", "--ffmpeg-location",
                            "--referer", "--user-agent", "--cookies-from-browser"} :
                 \A k \in Places(args[i], name) : k < Len(args[i])

\* An Audio download of a Douyin url with a blank before it has spawned its
\* process with the bundled ffmpeg and the two site-specific arguments
C20_Witness ==
    \E i \in Built :
        /\ pc[i] = "wait"
        /\ req[i].mode = "audio"
        /\ req[i].url = <<" ">> \o DouyinCom
        /\ Places(args[i], "--ffmpeg-location") # {}
        /\ Places(args[i], "--referer") # {}
        /\ args[i][Len(args[i])] = Text(DouyinCom)

\* The download has a browser hint that is not blank
HasBrowserHint(r) == IsSome(r.browser) /\ ~IsBlank(Unwrap(r.browser))

\* The url belongs to one of the site families the code knows
InKnownFamily(url) == IsBilibiliUrl(url) \/ IsDouyinUrl(url)

\* C21: the cookie-source argument is appended only if the url matches the known
\* video-sharing domain family and a browser hint is supplied; for a url outside
\* that family no cookie-source argument is in the argument list.
C21_CookiesOnlyForKnownFamily ==
    \A i \in Built :
        Places(args[i], "--cookies-from-browser") # {}
            => InKnownFamily(req[i].url) /\ HasBrowserHint(req[i])

\* The argument list holds the transcoder-location flag once, followed by `path`
PinsTranscoder(list, path) ==
    /\ Cardinality(Places(list, "--ffmpeg-location")) = 1
    /\ \A k \in Places(list, "--ffmpeg-location") :
          k < Len(list) /\ list[k + 1] = Flag(path)

\* The download failed once its output directory was there, while its argument
\* list was being built
FailedInBuild(i) ==
    /\ result[i] # None
    /\ ~Unwrap(result[i]).ok
    /\ Unwrap(result[i]).err \in {"ffmpeg-missing", "data-dir"}
    /\ "mkdir" \in effects[i]

\* The transcoder-location flag and the path, exactly when ffmpeg is resolvable
FlagIffResolvable ==
    \A i \in Built :
        IF IsSome(DetectExisting("ffmpeg"))
        THEN PinsTranscoder(args[i], Unwrap(DetectExisting("ffmpeg")))
        ELSE Places(args[i], "--ffmpeg-location") = {}

\* C22: in both modes the argument list holds the transcoder-location flag
\* followed by the resolved transcoder path exactly when the transcoding binary
\* is resolvable at build time; in Video mode an unresolvable transcoder does not
\* fail the request, which goes on to the spawn without that flag.
C22_TranscoderPinnedWhenResolvable ==
    /\ FlagIffResolvable
    /\ \A i \in Invocations : req[i].mode = "video" => ~FailedInBuild(i)

\* The spawn of the downloader of download i has failed
SpawnFailed(i) ==
    /\ req[i].kind = "download"
    /\ "spawn" \in effects[i]
    /\ child[i] = NoChild
    /\ pc[i] = "error"

\* C23: if spawning the downloader fails, download returns the spawn error, and
\* no reader task is started, no line is buffered and no log or progress event
\* is emitted for that session.
C23_SpawnFailureStartsNothing ==
    \A i \in Invocations :
        SpawnFailed(i) =>
            /\ result[i] = Err("spawn")
            /\ \A s \in Streams : rpc[i][s] = "none" /\ buf[i][s] = <<>>
            /\ \A k \in 1..Len(emitted) : emitted[k].inv # i

\* A download whose argument list was built and whose spawn then failed
C23_Witness ==
    \E i \in Invocations :
        /\ SpawnFailed(i)
        /\ args[i] # <<>>
        /\ result[i] = Err("spawn")

\* The lines of pipe s the reader task of download i has dealt with: read,
\* logged and, when parse yields an event for them, followed by it
Handled(i, s) ==
    {k \in 1..Len(buf[i][s]) : k < Len(buf[i][s]) \/ rpc[i][s] \in {"read", "eof"}}

\* What parse yielded for line k of pipe s: the payloads of its progress events
ProgressOf(i, s, k) ==
    {emitted[n].progress :
        n \in {m \in 1..Len(emitted) :
                 /\ emitted[m].type = "download-progress"
                 /\ emitted[m].inv = i
                 /\ emitted[m].stream = s
                 /\ emitted[m].idx = k}}

\* The text of a line before its first '%', <<>> if it has none
BeforePercent(line) ==
    IF \E a \in 1..Len(line) : line[a] = "%"
    THEN SubSeq(line, 1, (CHOOSE a \in 1..Len(line) :
                            line[a] = "%" /\ \A b \in 1..(a - 1) : line[b] # "%") - 1)
    ELSE <<>>

HasPercent(line) == \E a \in 1..Len(line) : line[a] = "%"

\* The numbers a line shows as its percent, the text between `lead` (the marker,
\* or its repetitions) and the first '%' being read as a number
PercentOf(line, lead) ==
    {n \in Numbers :
        /\ IsPrefixOf(Marker, line)
        /\ HasPercent(line)
        /\ Trim(DropFirst(BeforePercent(line), lead)) = n.text}

\* The length of the run of markers a line begins with
RECURSIVE MarkerRun(_)
MarkerRun(line) ==
    IF IsPrefixOf(Marker, line) THEN Len(Marker) + MarkerRun(DropFirst(line, Len(Marker))) ELSE 0

\* parse yields for every handled line an event with the percent of the line, or
\* nothing for a line that shows none
YieldsExactly(lead(_)) ==
    \A i \in Invocations, s \in Streams :
        \A k \in Handled(i, s) :
            LET ns == PercentOf(buf[i][s][k], lead(buf[i][s][k]))
                got == ProgressOf(i, s, k)
            IN IF ns = {}
               THEN got = {}
               ELSE /\ Cardinality(got) = 1
                    /\ \A e \in got : IsSome(e) /\ \E n \in ns : Unwrap(e).percent = n.value

OneMarker(line) == Len(Marker)

\* C24: parse yields a ProgressEvent only for lines that begin with the marker
\* "[download]" and whose text between the marker, repeated any number of times,
\* and the first '%' is a number; a line that does not start with the marker
\* (leading whitespace included), a marker line without '%' and a marker line
\* whose text before '%' is no number yield nothing; the percent is passed
\* through as parsed, above 100 or negative.
C24_ProgressOnlyForMarkedNumbers == YieldsExactly(MarkerRun)

\* The line "[download] 150%" has yielded an event whose percent is 150
C24_Witness ==
    \E i \in Invocations, s \in Streams :
        \E k \in Handled(i, s) :
            /\ buf[i][s][k] = MarkerLine(<<"1", "5", "0">>, <<>>)
            /\ ProgressOf(i, s, k) # {}
            /\ \A e \in ProgressOf(i, s, k) :
                  Unwrap(e).percent = [kind |-> "finite", neg |-> FALSE, mant |-> 150, exp10 |-> 0]

\* C24 as stated: the text between the marker, taken once, and the first '%'
C24_AsStated == YieldsExactly(OneMarker)

\* parse has yielded for line k one event, with these fields
Yielded(i, s, k, percent, total, eta, status) ==
    /\ Cardinality(ProgressOf(i, s, k)) = 1
    /\ \A e \in ProgressOf(i, s, k) :
          /\ IsSome(e)
          /\ Unwrap(e).percent = percent
          /\ Unwrap(e).total = Some(total)
          /\ Unwrap(e).eta = Some(eta)
          /\ Unwrap(e).status = Some(status)

\* C25: for a line "[download] P% of T at S ETA E" with P below 100, parse yields
\* percent P, total T, speed S, eta E and status "downloading"; for a line
\* "[download] P% of T in D" it yields percent P, total T, eta D (the " in "
\* fallback) and status "finished".
C25_FieldsOfProgressLines ==
    \A i \in Invocations, s \in Streams :
        \A k \in Handled(i, s) :
            \A sp \in {<<" ">>, <<" ", " ">>}, n \in Numbers, t \in Totals :
                /\ \A sd \in Speeds, e \in Etas :
                      (buf[i][s][k] = DownloadingLine(sp, n.text, t, sd, e) /\ ~n.atLeast100)
                          => /\ Yielded(i, s, k, n.value, t, e, "downloading")
                             /\ \A ev \in ProgressOf(i, s, k) : Unwrap(ev).speed = Some(sd)
                /\ \A d \in Durations :
                      buf[i][s][k] = FinishedLine(sp, n.text, t, d)
                          => Yielded(i, s, k, n.value, t, d, "finished")

\* The line "[download] 5% of 10.00MiB in 00:02" has yielded its event, the eta
\* taken after " in "
C25_Witness ==
    \E i \in Invocations, s \in Streams :
        \E k \in Handled(i, s) :
            \E t \in Totals, d \in Durations :
                /\ buf[i][s][k] = FinishedLine(<<" ">>, <<"5">>, t, d)
                /\ \A e \in ProgressOf(i, s, k) : Unwrap(e).eta = Some(d)
                /\ ProgressOf(i, s, k) # {}

\* The text of a line after its first '%', as it stands or trimmed
AfterPercent(line) == DropFirst(line, Len(BeforePercent(line)) + 1)

\* The status the rule gives for a percent and a remainder
StatusFor(n, remainder) ==
    IF Contains(remainder, <<" ", "i", "n", " ">>) \/ n.atLeast100 THEN Some("finished")
    ELSE IF remainder # <<>> THEN Some("downloading")
    ELSE None

\* Every event parse yields has the status of the rule, the remainder of a line
\* being taken by `remainder`
StatusFollowsRule(remainder(_)) ==
    \A i \in Invocations, s \in Streams :
        \A k \in Handled(i, s) :
            \A e \in ProgressOf(i, s, k) :
                \E n \in PercentOf(buf[i][s][k], MarkerRun(buf[i][s][k])) :
                    Unwrap(e).status = StatusFor(n, remainder(buf[i][s][k]))

TrimmedRemainder(line) == Trim(AfterPercent(line))

\* C26: for every recognized progress line the status is "finished" if the
\* remainder after '%', trimmed, contains " in " or the percent is at least 100;
\* otherwise "downloading" if that remainder is not empty; otherwise unset; a
\* bare "100%" with no ETA and no total yields an event with status "finished".
C26_StatusRule == StatusFollowsRule(TrimmedRemainder)

\* The line "[download] 100%" has yielded an event with status "finished"
C26_Witness ==
    \E i \in Invocations, s \in Streams :
        \E k \in Handled(i, s) :
            /\ buf[i][s][k] = MarkerLine(<<"1", "0", "0">>, <<>>)
            /\ ProgressOf(i, s, k) # {}
            /\ \A e \in ProgressOf(i, s, k) :
                  /\ Unwrap(e).status = Some("finished")
                  /\ Unwrap(e).eta = None
                  /\ Unwrap(e).total = None

\* C26 as stated: the remainder is the text after '%' as it stands
C26_AsStated == StatusFollowsRule(AfterPercent)

\* A reader task with something to do can do it, whatever the state of the other
\* reader task, of the process and of the command
ReaderNeverWaits ==
    \A s \in Streams :
        /\ (rpc[1][s] = "read" /\ Len(buf[1][s]) < Len(pipe[1][s])) => ENABLED ReadLine(1, s)
        /\ rpc[1][s] = "log" => ENABLED EmitLog(1, s, TRUE)
        /\ (rpc[1][s] = "read" /\ Len(buf[1][s]) = Len(pipe[1][s]) /\ child[1].state # "running")
              => ENABLED ReadEof(1, s)

\* Every line the process writes to a pipe is read in the end, whatever happens on
\* the other pipe, unless its reader has failed
LinesDrained ==
    \A s \in Streams :
        []<>(Len(buf[1][s]) = Len(pipe[1][s]) \/ rpc[1][s] \in {"none", "failed"})

\* C27: the two reader tasks drain their pipes independently of each other and
\* of the wait for the exit: neither waits for the other, so a process that
\* writes many lines to one pipe before it writes to or closes the other is not
\* blocked forever; under fair scheduling, once the process has exited and both
\* pipes are at end-of-stream, the download eventually returns its result.
C27_ReadersDrainIndependently ==
    /\ []ReaderNeverWaits
    /\ LinesDrained
    /\ (child[1].state = "exited") ~> (result[1] # None)

\* The process wrote two lines to stderr and none to stdout and exited; both
\* lines were read and the download has returned
C27_Witness ==
    /\ child[1].state = "exited"
    /\ Len(pipe[1]["stderr"]) = 2 /\ Len(buf[1]["stderr"]) = 2
    /\ pipe[1]["stdout"] = <<>>
    /\ result[1] # None /\ Unwrap(result[1]).ok

\* Download i was called without a session id and is under way: it has derived
\* its session id and has not returned
DerivedAndRunning(i) ==
    /\ req[i].kind = "download"
    /\ req[i].session_id = None
    /\ sid[i] # <<>>
    /\ result[i] = None

\* C28: two concurrent downloads that both omit the session id are given
\* distinct derived session ids, so that their events on the shared sink can be
\* told apart.
C28_DerivedSessionIdsDistinct ==
    \A i, j \in Invocations :
        (i # j /\ DerivedAndRunning(i) /\ DerivedAndRunning(j)) => sid[i] # sid[j]

\* Call k ran alone: every other call returned before it began or began after it
\* returned
Alone(k) ==
    /\ \A m \in 1..Len(trace) :
          /\ m < k => trace[k].started >= m
          /\ m > k => trace[m].started >= k
    /\ \A c \in Running : call[c].started >= k

\* The installs that failed with a download error or for want of an archive entry
FailedInstalls ==
    {k \in 1..Len(trace) :
        /\ trace[k].op \in {"install", "ensure"}
        /\ trace[k].ret \in {Failed("download"), Failed("extract")}}

\* C29: when an install fails with a download error (transport error or non-2xx
\* status) or an extraction error (no matching archive entry), the file at the
\* target path is left as it was before the call: a bundled binary is intact and
\* detectable, an absent one is absent (for the checks that find the file as the
\* failed call left it).
C29_FailedInstallLeavesTarget ==
    \A k \in FailedInstalls :
        Alone(k) =>
            /\ trace[k].after = trace[k].before
            /\ \A m \in 1..Len(trace) :
                  (m > k /\ trace[m].op = "detect" /\ trace[m].bin = trace[k].bin
                     /\ trace[m].before = trace[k].after
                     /\ ~DetectSystemBinary(trace[k].bin))
                      => trace[m].ret = (IF trace[k].before.exists
                                         THEN Found("bundled") ELSE NotFound)

\* An install of ffmpeg, bundled before, failed for want of an archive entry; the
\* check that followed found the bundled ffmpeg as it was
C29_Witness ==
    /\ Len(trace) = 2
    /\ 1 \in FailedInstalls /\ Alone(1)
    /\ trace[1].bin = "ffmpeg" /\ trace[1].ret = Failed("extract")
    /\ trace[1].before = Installed /\ trace[1].after = Installed
    /\ trace[2].op = "detect" /\ trace[2].bin = "ffmpeg"
    /\ trace[2].ret = Found("bundled")
    /\ trace[2].after = Installed

====
